---- MODULE Spec2Model ----
(***************************************************************************)
(* A model of rpath_common/xmllib/api1.py: the node classes, the SAX       *)
(* BindingHandler, DataBinder.parseString driven by the expat tokenizer,   *)
(* and the DataBinder serializer (_getChildOrder, _to_etree_r).            *)
(*                                                                         *)
(* Python values are tagged records.  A Python str is a sequence of        *)
(* one-character strings; tag names are TLA+ strings used as dictionary    *)
(* keys, and NameChars gives the characters of a name where the code uses  *)
(* the name as a value.  A node instance is a record holding its           *)
(* registered base class, the attributes of its per-element class and its  *)
(* instance __dict__.                                                      *)
(***************************************************************************)
EXTENDS Integers, Sequences, FiniteSets, TLC

VARIABLES
    typeDict,    \* BindingHandler.typeDict: tag name -> registered class
    regs,        \* the registerType calls made so far, as (key, class) pairs
    classChildOrder, \* the list BaseNode._childOrder, shared by the classes
    startDepth,  \* the depth of the stack when the current call began
    par,         \* two binders constructed with one typeDict: their handlers,
                 \* and per binder the state of its parseString call and the
                 \* markup delivered to it so far
    stack,       \* BindingHandler.stack
    rootNode,    \* BindingHandler.rootNode
    pc,          \* "idle", or "parsing" while parseString is in parser.parse
    open,        \* the tokenizer's own stack of open elements (name, id)
    phase,       \* tokenizer position: "prolog", "content" or "epilog"
    outcome,     \* what the last parseString call did: returned v / raised e
    events,      \* number of handler callbacks delivered so far
    fresh,       \* a handler constructed for the current call alone
    freshOut,    \* what that fresh handler's call did
    elems,       \* per element of the current document: its parent, the callback
                 \* that closed it, the callbacks in which its _finalize was
                 \* called, the value its _finalize yields at its close, the
                 \* character data delivered while it was the innermost open
                 \* element, and its _text at its close
    text,        \* input of the finalizer probes
    intRes,      \* IntegerNode._finalize on text
    boolRes,     \* BooleanNode._finalize on text
    serObj,      \* the object handed to the serializer
    serName,     \* the suggestedName handed to it ("" for None)
    serIter,     \* the order in which the dicts of this run iterate their keys
    serOut,      \* what _to_etree_r produced for serObj
    doc          \* the document toXml wrote, and how far parseString has read it

vars == <<typeDict, regs, classChildOrder, startDepth, par, stack, rootNode,
          pc, open, phase, outcome, events, fresh, freshOut, elems,
          text, intRes, boolRes, serObj, serName, serIter, serOut, doc>>

binderVars == <<regs, startDepth, stack, rootNode, pc, open, phase, outcome,
                events, fresh, freshOut, elems>>
parseVars == <<typeDict, classChildOrder, par, binderVars>>
textVars == <<text, intRes, boolRes>>
serVars == <<serObj, serName, serIter, serOut, doc>>

(***************************************************************************)
(* Bounds of the model.                                                    *)
(***************************************************************************)
MaxEvents == 5
MaxProbeLen == 5
MaxSeqLen == 2
MaxOrderLen == 2
MaxRegs == 2
MaxParEvents == 4

(***************************************************************************)
(* Python values.                                                          *)
(***************************************************************************)
NoneV == [k |-> "none"]
IntV(i) == [k |-> "int", i |-> i]
BoolV(b) == [k |-> "bool", b |-> b]
StrV(s) == [k |-> "str", s |-> s]
ListV(l) == [k |-> "list", l |-> l]
DictV(d) == [k |-> "dict", d |-> d]
EmptyFn == [n \in {} |-> NoneV]

Raise(e) == [err |-> e, v |-> NoneV]
Return(v) == [err |-> "none", v |-> v]

\* The characters of the tag names of the model's universe.
NameChars(n) ==
    CASE n = "x" -> <<"x">>
      [] n = "foo" -> <<"f", "o", "o">>
      [] n = "_childOrder" -> <<"_", "c", "h", "i", "l", "d", "O", "r", "d", "e", "r">>
      [] n = "_singleChildren" -> <<"_", "s", "i", "n", "g", "l", "e", "C", "h", "i", "l", "d", "r", "e", "n">>
      [] n = "_text" -> <<"_", "t", "e", "x", "t">>
      [] n = "id" -> <<"i", "d">>
      [] n = "a" -> <<"a">>
      [] n = "b" -> <<"b">>
      [] n = "c" -> <<"c">>
      [] n = "z" -> <<"z">>
      [] n = "bar" -> <<"b", "a", "r">>

NameStr(n) == StrV(NameChars(n))

\* str.startswith('_')
StartsWithUnderscore(n) == NameChars(n)[1] = "_"

(***************************************************************************)
(* str operations used by the finalizers.                                  *)
(***************************************************************************)
Whitespace == {" ", "\n", "\t"}

RECURSIVE LStrip(_)
LStrip(s) == IF s # <<>> /\ Head(s) \in Whitespace THEN LStrip(Tail(s)) ELSE s

RECURSIVE RStrip(_)
RStrip(s) ==
    IF s # <<>> /\ s[Len(s)] \in Whitespace
    THEN RStrip(SubSeq(s, 1, Len(s) - 1))
    ELSE s

\* str.strip()
Strip(s) == RStrip(LStrip(s))

UpperChar(c) ==
    CASE c = "t" -> "T"
      [] c = "r" -> "R"
      [] c = "u" -> "U"
      [] c = "e" -> "E"
      [] OTHER -> c

\* str.upper()
Upper(s) == [i \in 1..Len(s) |-> UpperChar(s[i])]

Digits == {"0", "1", "2", "3", "4", "5", "6", "7", "8", "9"}

DigitVal(c) ==
    CASE c = "0" -> 0 [] c = "1" -> 1 [] c = "2" -> 2 [] c = "3" -> 3
      [] c = "4" -> 4 [] c = "5" -> 5 [] c = "6" -> 6 [] c = "7" -> 7
      [] c = "8" -> 8 [] c = "9" -> 9

RECURSIVE DigitsVal(_)
DigitsVal(s) ==
    IF s = <<>> THEN 0
    ELSE 10 * DigitsVal(SubSeq(s, 1, Len(s) - 1)) + DigitVal(s[Len(s)])

AllDigits(s) == s # <<>> /\ \A i \in 1..Len(s) : s[i] \in Digits

\* int(s) on a str: surrounding whitespace is skipped, one optional sign,
\* then decimal digits; anything else raises ValueError.
PyInt(s) ==
    LET t == Strip(s)
        signed == t # <<>> /\ t[1] \in {"-", "+"}
        body == IF signed THEN Tail(t) ELSE t
    IN IF AllDigits(body)
       THEN Return(IntV(IF signed /\ t[1] = "-" THEN 0 - DigitsVal(body) ELSE DigitsVal(body)))
       ELSE Raise("ValueError")

\* a in b for two str values
IsSubstr(a, b) ==
    \E i \in 0..(Len(b) - Len(a)) : SubSeq(b, i + 1, i + Len(a)) = a

(***************************************************************************)
(* The node classes.                                                       *)
(***************************************************************************)
Classes == {"BaseNode", "IntegerNode", "StringNode", "NullNode",
            "BooleanNode", "DictNode", "ComplexType", "OrderedType"}

\* The class attribute _singleChildren: [] on BaseNode, ['foo', 'bar'] on
\* the ComplexType of the DataBinder docstring.
ClassSingleChildren(cls) ==
    IF cls = "ComplexType" THEN ListV(<<NameStr("foo"), NameStr("bar")>>)
    ELSE ListV(<<>>)

\* The class attribute _childOrder: [] on BaseNode, and ['foo', 'x'] on
\* OrderedType, a registered class that declares its ordering the way
\* ComplexType declares its single children.
ClassChildOrder(cls) ==
    IF cls = "OrderedType" THEN ListV(<<NameStr("foo"), NameStr("x")>>)
    ELSE ListV(<<>>)

\* type(str(name), (classType,), dict(attrs))(): BaseNode.__init__ sets _text.
NewNode(cls, name, attrs) ==
    [k |-> "node", cls |-> cls, name |-> name, attrs |-> attrs,
     d |-> ("_text" :> StrV(<<>>))]

\* Attribute lookup self.<n>: the instance __dict__, then the per-element
\* class (the XML attributes), then the registered class.
HasInstanceAttr(node, n) == n \in DOMAIN node.d

SingleChildrenOf(node) ==
    IF HasInstanceAttr(node, "_singleChildren") THEN node.d["_singleChildren"]
    ELSE IF "_singleChildren" \in DOMAIN node.attrs THEN node.attrs["_singleChildren"]
    ELSE ClassSingleChildren(node.cls)

\* bool(v)
Truthy(v) ==
    CASE v.k = "none" -> FALSE
      [] v.k = "int" -> v.i # 0
      [] v.k = "bool" -> v.b
      [] v.k = "str" -> v.s # <<>>
      [] v.k = "list" -> v.l # <<>>
      [] v.k = "dict" -> DOMAIN v.d # {}
      [] OTHER -> TRUE

\* name in container
NameIn(n, c) ==
    CASE c.k = "list" -> Return(BoolV(\E i \in 1..Len(c.l) : c.l[i] = NameStr(n)))
      [] c.k = "str" -> Return(BoolV(IsSubstr(NameChars(n), c.s)))
      [] c.k = "dict" -> Return(BoolV(n \in DOMAIN c.d))
      [] OTHER -> Raise("TypeError")

BaseNode_finalize(self) == Return(self)

\* return self._text and int(self._text) or 0
IntegerNode_finalize(self) ==
    LET t == self.d["_text"] IN
    IF ~Truthy(t) THEN Return(IntV(0))
    ELSE IF t.k # "str" THEN Raise("TypeError")
    ELSE LET r == PyInt(t.s) IN
         IF r.err # "none" THEN r
         ELSE IF Truthy(r.v) THEN r ELSE Return(IntV(0))

StringNode_finalize(self) == Return(self.d["_text"])

NullNode_finalize(self) == Return(NoneV)

BooleanNode_finalize_NoStrip(self) ==
    LET t == self.d["_text"] IN
    IF t.k # "str" THEN Raise("AttributeError")
    ELSE Return(BoolV(Upper(t.s) \in {<<"T", "R", "U", "E">>, <<"1">>}))

\* return self._text.upper().strip() in ('TRUE', '1')
BooleanNode_finalize(self) ==
    LET t == self.d["_text"] IN
    IF t.k # "str" THEN Raise("AttributeError")
    ELSE Return(BoolV(Strip(Upper(t.s)) \in {<<"T", "R", "U", "E">>, <<"1">>}))

DictNode_finalize(self) ==
    Return(DictV([n \in {m \in DOMAIN self.d : ~StartsWithUnderscore(m)} |-> self.d[n]]))

\* childNode._finalize(), dispatched on the registered class
Finalize(node) ==
    CASE node.cls = "IntegerNode" -> IntegerNode_finalize(node)
      [] node.cls = "StringNode" -> StringNode_finalize(node)
      [] node.cls = "NullNode" -> NullNode_finalize(node)
      [] node.cls = "BooleanNode" -> BooleanNode_finalize(node)
      [] node.cls = "DictNode" -> DictNode_finalize(node)
      [] OTHER -> BaseNode_finalize(node)

SetItem(d, n, v) == IF n \in DOMAIN d THEN [d EXCEPT ![n] = v] ELSE d @@ (n :> v)

\* BaseNode._addChild(self, name, childNode).  The result holds the node as
\* the call leaves it, the exception it raised if any, whether
\* childNode._finalize was called, and the names the call appended to the
\* class-level list BaseNode._childOrder.
AddChildResult(self, d, err, fin) ==
    [node |-> [self EXCEPT !.d = d], err |-> err, fin |-> fin, shared |-> <<>>]

\* The part of _addChild after the append to _childOrder (lines 61-66).
AddChildStore(self, d2, name, childNode) ==
    LET single == NameIn(name, SingleChildrenOf([self EXCEPT !.d = d2]))
        f == Finalize(childNode)
    IN
    IF single.err # "none" THEN AddChildResult(self, d2, single.err, FALSE)
    ELSE IF single.v.b THEN
        IF f.err # "none" THEN AddChildResult(self, d2, f.err, TRUE)
        ELSE AddChildResult(self, SetItem(d2, name, f.v), "none", TRUE)
    ELSE
        LET d3 == IF name \notin DOMAIN d2 THEN d2 @@ (name :> ListV(<<>>)) ELSE d2 IN
        IF d3[name].k # "list" THEN AddChildResult(self, d3, "AttributeError", FALSE)
        ELSE IF f.err # "none" THEN AddChildResult(self, d3, f.err, TRUE)
        ELSE AddChildResult(self, [d3 EXCEPT ![name] = ListV(Append(@.l, f.v))], "none", TRUE)

\* _addChild without lines 58-59: a node with no list of its own appends to
\* the list of its class
BaseNode_addChild_NoCopy(self, name, childNode) ==
    IF HasInstanceAttr(self, "_childOrder")
    THEN IF self.d["_childOrder"].k # "list"
         THEN AddChildResult(self, self.d, "AttributeError", FALSE)
         ELSE AddChildStore(self,
                  [self.d EXCEPT !["_childOrder"] = ListV(Append(@.l, NameStr(name)))],
                  name, childNode)
    ELSE [AddChildStore(self, self.d, name, childNode) EXCEPT !.shared = <<NameStr(name)>>]

\* A node without an instance attribute _childOrder finds the attribute of
\* its class, the very object self.__class__._childOrder is, and gets a new
\* list of its own.
BaseNode_addChild(self, name, childNode) ==
    LET d1 == IF HasInstanceAttr(self, "_childOrder") THEN self.d
              ELSE self.d @@ ("_childOrder" :> ListV(<<>>))
        co == d1["_childOrder"]
    IN
    IF co.k # "list" THEN AddChildResult(self, d1, "AttributeError", FALSE)
    ELSE AddChildStore(self,
             [d1 EXCEPT !["_childOrder"] = ListV(Append(co.l, NameStr(name)))],
             name, childNode)

\* BaseNode._characters(self, ch): self._text += ch
BaseNode_characters(self, ch) ==
    LET t == self.d["_text"] IN
    CASE t.k = "str" -> [node |-> [self EXCEPT !.d["_text"] = StrV(t.s \o ch)], err |-> "none"]
      [] t.k = "list" ->
            [node |-> [self EXCEPT !.d["_text"] =
                          ListV(t.l \o [i \in 1..Len(ch) |-> StrV(<<ch[i]>>)])],
             err |-> "none"]
      [] OTHER -> [node |-> self, err |-> "TypeError"]

(***************************************************************************)
(* BindingHandler.  A handler is a record of its stack and rootNode; each  *)
(* callback yields the handler as the call leaves it and the exception it  *)
(* raised, if any.                                                         *)
(***************************************************************************)
Handler(st, root) == [stack |-> st, rootNode |-> root]

\* BindingHandler.__init__
BindingHandler_init == Handler(<<>>, NoneV)

ClassType(td, name) == IF name \in DOMAIN td THEN td[name] ELSE "BaseNode"

BindingHandler_startElement(h, td, name, attrs) ==
    [h |-> Handler(Append(h.stack, NewNode(ClassType(td, name), name, attrs)), h.rootNode),
     err |-> "none", fin |-> FALSE, shared |-> <<>>]

\* endElement that stores the root and leaves it on the stack
BindingHandler_endElement_KeepRoot(h, name) ==
    IF h.stack = <<>> THEN [h |-> h, err |-> "IndexError", fin |-> FALSE, shared |-> <<>>]
    ELSE
    LET elem == h.stack[Len(h.stack)]
        rest == SubSeq(h.stack, 1, Len(h.stack) - 1)
    IN
    IF rest = <<>>
    THEN [h |-> Handler(h.stack, elem), err |-> "none", fin |-> FALSE, shared |-> <<>>]
    ELSE LET r == BaseNode_addChild(rest[Len(rest)], name, elem) IN
         [h |-> Handler([rest EXCEPT ![Len(rest)] = r.node], h.rootNode),
          err |-> r.err, fin |-> r.fin, shared |-> r.shared]

BindingHandler_endElement(h, name) ==
    IF h.stack = <<>> THEN [h |-> h, err |-> "IndexError", fin |-> FALSE, shared |-> <<>>]
    ELSE
    LET elem == h.stack[Len(h.stack)]
        rest == SubSeq(h.stack, 1, Len(h.stack) - 1)
    IN
    IF rest = <<>>
    THEN [h |-> Handler(rest, elem), err |-> "none", fin |-> FALSE, shared |-> <<>>]
    ELSE LET r == BaseNode_addChild(rest[Len(rest)], name, elem) IN
         [h |-> Handler([rest EXCEPT ![Len(rest)] = r.node], h.rootNode),
          err |-> r.err, fin |-> r.fin, shared |-> r.shared]

BindingHandler_characters(h, ch) ==
    IF h.stack = <<>> THEN [h |-> h, err |-> "IndexError", fin |-> FALSE, shared |-> <<>>]
    ELSE LET r == BaseNode_characters(h.stack[Len(h.stack)], ch) IN
         [h |-> Handler([h.stack EXCEPT ![Len(h.stack)] = r.node], h.rootNode),
          err |-> r.err, fin |-> FALSE, shared |-> <<>>]

(***************************************************************************)
(* Inputs of the model: tag names, attribute sets, character-data chunks   *)
(* and registrations.                                                      *)
(***************************************************************************)
\* The (name, attrs) arguments of startElement.
StartChoices == {<<"x", EmptyFn>>, <<"x", ("id" :> StrV(<<"1">>))>>,
                 <<"foo", EmptyFn>>, <<"_childOrder", EmptyFn>>,
                 <<"_singleChildren", EmptyFn>>}
Chunks == {<<"1">>}
\* The typeDict arguments of the DataBinder constructor.
InitTypeDicts ==
    {EmptyFn,
     ("x" :> "ComplexType") @@ ("foo" :> "IntegerNode"),
     ("x" :> "DictNode") @@ ("foo" :> "BooleanNode"),
     ("x" :> "StringNode") @@ ("foo" :> "NullNode")}

Pending == [kind |-> "pending"]
Returned(v) == [kind |-> "returned", v |-> v]
Raised(e) == [kind |-> "raised", e |-> e]

Last(s) == s[Len(s)]
Front(s) == SubSeq(s, 1, Len(s) - 1)

(***************************************************************************)
(* DataBinder: registerType, and parseString driven by the tokenizer.      *)
(* The tokenizer delivers the callbacks of a well-formed prefix of a       *)
(* document (every close matches the innermost open element, one root      *)
(* element) and raises SAXParseException where the input stops being       *)
(* well-formed.  An exception raised by a callback leaves parser.parse and *)
(* parseString at once.                                                    *)
(***************************************************************************)
\* registerType keeping the class a key already has
RegisterType_FirstWins(key, val) ==
    /\ pc = "idle"
    /\ Len(regs) < MaxRegs
    /\ typeDict' = IF key \in DOMAIN typeDict THEN typeDict ELSE typeDict @@ (key :> val)
    /\ regs' = Append(regs, <<key, val>>)
    /\ UNCHANGED <<par, classChildOrder, startDepth, stack, rootNode, pc, open,
                   phase, outcome, events, fresh, freshOut, elems>>
    /\ UNCHANGED <<textVars, serVars>>

\* DataBinder.registerType -> BindingHandler.registerType
RegisterType(key, val) ==
    /\ pc = "idle"
    /\ Len(regs) < MaxRegs
    /\ typeDict' = SetItem(typeDict, key, val)
    /\ regs' = Append(regs, <<key, val>>)
    /\ UNCHANGED <<par, classChildOrder, startDepth, stack, rootNode, pc, open,
                   phase, outcome, events, fresh, freshOut, elems>>
    /\ UNCHANGED <<textVars, serVars>>

\* parseString up to the call of parser.parse
ParseBegin ==
    /\ pc = "idle"
    /\ pc' = "parsing"
    /\ rootNode' = NoneV
    /\ open' = <<>>
    /\ phase' = "prolog"
    /\ outcome' = Pending
    /\ fresh' = BindingHandler_init
    /\ freshOut' = Pending
    /\ elems' = <<>>
    /\ startDepth' = Len(stack)
    /\ UNCHANGED <<par, typeDict, regs, classChildOrder, stack, events>>
    /\ UNCHANGED <<textVars, serVars>>

\* The handler after a callback, and the end of the call if it raised.
Deliver(r, rf) ==
    /\ stack' = r.h.stack
    /\ rootNode' = r.h.rootNode
    /\ fresh' = rf.h
    /\ events' = events + 1
    /\ IF r.err # "none"
       THEN /\ pc' = "idle"
            /\ outcome' = Raised(r.err)
            /\ freshOut' = IF rf.err # "none" THEN Raised(rf.err) ELSE Pending
       ELSE /\ pc' = pc
            /\ UNCHANGED <<outcome, freshOut>>
    /\ classChildOrder' = ListV(classChildOrder.l \o r.shared)
    /\ UNCHANGED <<par, typeDict, regs, startDepth>>
    /\ UNCHANGED <<textVars, serVars>>

TokStartElement(name, attrs) ==
    /\ pc = "parsing"
    /\ events < MaxEvents
    /\ phase = "prolog" \/ phase = "content"
    /\ phase' = "content"
    /\ open' = Append(open, Len(elems) + 1)
    /\ elems' = Append(elems, [name |-> name,
                               parent |-> IF open = <<>> THEN 0 ELSE Last(open),
                               closedAt |-> 0, finAt |-> <<>>, val |-> NoneV,
                               chars |-> <<>>, textAtClose |-> NoneV])
    /\ Deliver(BindingHandler_startElement(Handler(stack, rootNode), typeDict, name, attrs),
               BindingHandler_startElement(fresh, typeDict, name, attrs))

TokCharacters(ch) ==
    /\ pc = "parsing"
    /\ events < MaxEvents
    /\ phase = "content"
    /\ elems' = [elems EXCEPT ![Last(open)].chars = @ \o ch]
    /\ UNCHANGED <<open, phase>>
    /\ Deliver(BindingHandler_characters(Handler(stack, rootNode), ch),
               BindingHandler_characters(fresh, ch))

TokEndElement ==
    /\ pc = "parsing"
    /\ events < MaxEvents
    /\ phase = "content"
    /\ LET id == Last(open)
           elem == Last(stack)
           r == BindingHandler_endElement(Handler(stack, rootNode), elems[id].name)
           rf == BindingHandler_endElement(fresh, elems[id].name)
       IN /\ open' = Front(open)
          /\ phase' = IF Len(open) = 1 THEN "epilog" ELSE "content"
          /\ elems' = [elems EXCEPT ![id] =
                          [@ EXCEPT !.closedAt = events + 1,
                                    !.finAt = IF r.fin THEN Append(@, events + 1) ELSE @,
                                    !.val = Finalize(elem).v,
                                    !.textAtClose = elem.d["_text"]]]
          /\ Deliver(r, rf)

\* The input stops being well-formed here: parser.parse raises.
TokError ==
    /\ pc = "parsing"
    /\ pc' = "idle"
    /\ outcome' = Raised("SAXParseException")
    /\ freshOut' = Raised("SAXParseException")
    /\ UNCHANGED <<par, typeDict, regs, classChildOrder, startDepth, stack, rootNode,
                   open, phase, events, fresh, elems>>
    /\ UNCHANGED <<textVars, serVars>>

\* The document ends after its root element: parser.parse returns and
\* parseString hands out rootNode, leaving None behind.
ParseReturn ==
    /\ pc = "parsing"
    /\ phase = "epilog"
    /\ pc' = "idle"
    /\ outcome' = Returned(rootNode)
    /\ freshOut' = Returned(fresh.rootNode)
    /\ rootNode' = NoneV
    /\ fresh' = Handler(fresh.stack, NoneV)
    /\ UNCHANGED <<par, typeDict, regs, classChildOrder, startDepth, stack, open,
                   phase, events, elems>>
    /\ UNCHANGED <<textVars, serVars>>

\* Two binders, each with the handler of its __init__ and no call yet.
IdleRun == [st |-> "idle", toks |-> <<>>, open |-> <<>>, phase |-> "prolog", out |-> Pending]

InitPar ==
    par = [handlers |-> <<BindingHandler_init, BindingHandler_init>>,
           runs |-> <<IdleRun, IdleRun>>,
           mixed |-> FALSE]

InitParse ==
    /\ InitPar
    /\ regs = <<>>
    /\ classChildOrder = ListV(<<>>)
    /\ startDepth = 0
    /\ stack = <<>>
    /\ rootNode = NoneV
    /\ pc = "idle"
    /\ open = <<>>
    /\ phase = "prolog"
    /\ outcome = Pending
    /\ events = 0
    /\ fresh = BindingHandler_init
    /\ freshOut = Pending
    /\ elems = <<>>

(***************************************************************************)
(* The finalizers on their own: a node receives character data, one        *)
(* character per callback, and is finalized as an IntegerNode and as a     *)
(* BooleanNode.                                                            *)
(***************************************************************************)
ProbeChars == {" ", "-", "0", "1", "t", "T", "r", "u", "e"}

NodeWithText(cls, s) == [NewNode(cls, "foo", EmptyFn) EXCEPT !.d["_text"] = StrV(s)]

InitProbe ==
    /\ text = <<>>
    /\ intRes = IntegerNode_finalize(NodeWithText("IntegerNode", <<>>))
    /\ boolRes = BooleanNode_finalize(NodeWithText("BooleanNode", <<>>))

ProbeCharacters(c) ==
    /\ Len(text) < MaxProbeLen
    /\ LET n == BaseNode_characters(NodeWithText("BaseNode", text), <<c>>).node IN
       /\ text' = n.d["_text"].s
       /\ intRes' = IntegerNode_finalize([n EXCEPT !.cls = "IntegerNode"])
       /\ boolRes' = BooleanNode_finalize([n EXCEPT !.cls = "BooleanNode"])
    /\ UNCHANGED <<parseVars, serVars>>

(***************************************************************************)
(* The serializer: DataBinder._getChildOrder, _etree_add and _to_etree_r.  *)
(* An lxml element is a record of its tag, attributes, text and children.  *)
(* A dict iterates its keys in an order the program does not control; ord  *)
(* is that order, as a sequence of all key names.                          *)
(***************************************************************************)
Element(tag) == [k |-> "elem", tag |-> tag, attrib |-> EmptyFn, text |-> NoneV, children |-> <<>>]

\* Characters in the order of their codes.
CharCodes ==
    <<" ", "-", "0", "1", "2", "3", "4", "5", "6", "7", "8", "9",
      "A", "B", "C", "D", "E", "F", "G", "H", "I", "J", "K", "L", "M",
      "N", "O", "P", "Q", "R", "S", "T", "U", "V", "W", "X", "Y", "Z", "_",
      "a", "b", "c", "d", "e", "f", "g", "h", "i", "j", "k", "l", "m",
      "n", "o", "p", "q", "r", "s", "t", "u", "v", "w", "x", "y", "z">>

Ord(c) == CHOOSE i \in 1..Len(CharCodes) : CharCodes[i] = c

\* The comparison of two tuples of numbers, and of two str through the
\* codes of their characters.
RECURSIVE SeqLess(_, _)
SeqLess(a, b) ==
    IF b = <<>> THEN FALSE
    ELSE IF a = <<>> THEN TRUE
    ELSE IF Head(a) # Head(b) THEN Head(a) < Head(b)
    ELSE SeqLess(Tail(a), Tail(b))

NameCodes(n) == [i \in 1..Len(NameChars(n)) |-> Ord(NameChars(n)[i])]

\* sorted(items, key = ...): a stable sort by the key of each item
RECURSIVE InsertByKey(_, _, _)
InsertByKey(x, sorted, key) ==
    IF sorted = <<>> THEN <<x>>
    ELSE IF SeqLess(key[x], key[Last(sorted)])
         THEN Append(InsertByKey(x, Front(sorted), key), Last(sorted))
         ELSE Append(sorted, x)

RECURSIVE SortByKey(_, _)
SortByKey(items, key) ==
    IF items = <<>> THEN <<>>
    ELSE InsertByKey(Last(items), SortByKey(Front(items), key), key)

Range(sq) == {sq[i] : i \in 1..Len(sq)}

\* order.index(x), counted from 0
IndexOf(n, order) ==
    IF order.k = "list"
    THEN (CHOOSE i \in 1..Len(order.l) :
             /\ order.l[i] = NameStr(n)
             /\ \A j \in 1..(i - 1) : order.l[j] # NameStr(n)) - 1
    ELSE (CHOOSE i \in 0..Len(order.s) :
             /\ SubSeq(order.s, i + 1, i + Len(NameChars(n))) = NameChars(n)
             /\ \A j \in 0..(i - 1) : SubSeq(order.s, j + 1, j + Len(NameChars(n))) # NameChars(n))

DataBinder_getChildOrder_NoNameKey(items, order) ==
    SortByKey(items,
        [x \in Range(items) |->
            IF NameIn(x, order).v.b THEN <<0, IndexOf(x, order)>> ELSE <<1, 0>>])

\* sorted(items, key = lambda x: (x not in order, x in order and order.index(x), x))
DataBinder_getChildOrder(items, order) ==
    SortByKey(items,
        [x \in Range(items) |->
            (IF NameIn(x, order).v.b THEN <<0, IndexOf(x, order)>> ELSE <<1, 0>>)
                \o NameCodes(x)])

SortedItems_Unsorted(items) == items

\* sorted(obj.iteritems()): the keys are distinct, so the key decides
SortedItems(items) == SortByKey(items, [x \in Range(items) |-> NameCodes(x)])

\* The keys of a dict in its iteration order.
IterKeys(keys, ord) == SelectSeq(ord, LAMBDA n : n \in keys)

\* str(obj) of an int
DigitChar(n) == CHOOSE c \in Digits : DigitVal(c) = n

RECURSIVE NatChars(_)
NatChars(n) == IF n < 10 THEN <<DigitChar(n)>> ELSE Append(NatChars(n \div 10), DigitChar(n % 10))

IntChars(i) == IF i < 0 THEN <<"-">> \o NatChars(0 - i) ELSE NatChars(i)

\* obj.__class__.__name__
ClassName(obj) ==
    CASE obj.k = "bool" -> "bool"
      [] obj.k = "int" -> "int"
      [] obj.k = "str" -> "str"
      [] obj.k = "list" -> "list"
      [] obj.k = "dict" -> "dict"
      [] obj.k = "none" -> "NoneType"
      [] OTHER -> obj.name

\* hasattr(obj, '_childOrder') and obj._childOrder or []
OrderingOf(obj) ==
    LET co == IF HasInstanceAttr(obj, "_childOrder") THEN obj.d["_childOrder"]
              ELSE IF "_childOrder" \in DOMAIN obj.attrs THEN obj.attrs["_childOrder"]
              ELSE ClassChildOrder(obj.cls)
    IN IF Truthy(co) THEN co ELSE ListV(<<>>)

RECURSIVE ConcatAll(_)
ConcatAll(ss) == IF ss = <<>> THEN <<>> ELSE ConcatAll(Front(ss)) \o Last(ss)

\* _etree_add(elem, obj) for the result obj of one child: the elements it
\* adds to elem, or the TypeError of extending with a list that holds a list.
DataBinder_etree_add(r) ==
    IF r.err # "none" THEN r
    ELSE IF r.v.k = "list"
         THEN IF \E i \in 1..Len(r.v.l) : r.v.l[i].k # "elem"
              THEN Raise("TypeError")
              ELSE Return(ListV(r.v.l))
         ELSE Return(ListV(<<r.v>>))

\* The loop "for key in keys: self._etree_add(elem, ...)" over the results
\* of the children: the children of elem, or the first exception.
AddAll(results) ==
    LET added == [i \in 1..Len(results) |-> DataBinder_etree_add(results[i])] IN
    IF \E i \in 1..Len(added) : added[i].err # "none"
    THEN Raise(added[CHOOSE i \in 1..Len(added) :
                        /\ added[i].err # "none"
                        /\ \A j \in 1..(i - 1) : added[j].err = "none"].err)
    ELSE Return(ListV(ConcatAll([i \in 1..Len(added) |-> added[i].v.l])))

RECURSIVE DataBinder_to_etree_r(_, _, _)
DataBinder_to_etree_r(obj, suggestedName, ord) ==
    LET name == IF suggestedName # "" THEN suggestedName ELSE ClassName(obj)
        elem == Element(name)
    IN
    CASE obj.k = "bool" ->
            Return([elem EXCEPT !.text =
                StrV(IF obj.b THEN <<"t", "r", "u", "e">> ELSE <<"f", "a", "l", "s", "e">>)])
      [] obj.k = "int" -> Return([elem EXCEPT !.text = StrV(IntChars(obj.i))])
      [] obj.k = "str" -> Return([elem EXCEPT !.text = obj])
      [] obj.k = "list" ->
            LET rs == [i \in 1..Len(obj.l) |-> DataBinder_to_etree_r(obj.l[i], suggestedName, ord)] IN
            IF \E i \in 1..Len(rs) : rs[i].err # "none"
            THEN Raise(rs[CHOOSE i \in 1..Len(rs) :
                             /\ rs[i].err # "none"
                             /\ \A j \in 1..(i - 1) : rs[j].err = "none"].err)
            ELSE Return(ListV([i \in 1..Len(rs) |-> rs[i].v]))
      [] obj.k = "dict" ->
            LET keys == SortedItems(IterKeys(DOMAIN obj.d, ord))
                kids == AddAll([i \in 1..Len(keys) |->
                                   DataBinder_to_etree_r(obj.d[keys[i]], keys[i], ord)])
            IN IF kids.err # "none" THEN kids
               ELSE Return([elem EXCEPT !.children = kids.v.l])
      [] obj.k = "node" ->
            LET attrs == [n \in {m \in DOMAIN obj.attrs : ~StartsWithUnderscore(m)} |-> obj.attrs[n]]
                children == {m \in DOMAIN obj.d : ~StartsWithUnderscore(m)}
                childOrder == DataBinder_getChildOrder(IterKeys(children, ord), OrderingOf(obj))
                kids == AddAll([i \in 1..Len(childOrder) |->
                                   DataBinder_to_etree_r(obj.d[childOrder[i]], childOrder[i], ord)])
            IN IF kids.err # "none" THEN kids
               ELSE IF ~HasInstanceAttr(obj, "_text")
                    THEN Return([elem EXCEPT !.attrib = attrs, !.children = kids.v.l])
               ELSE IF obj.d["_text"].k # "str" THEN Raise("AttributeError")
               ELSE Return([elem EXCEPT !.attrib = attrs, !.children = kids.v.l,
                                        !.text = IF Strip(obj.d["_text"].s) # <<>>
                                                 THEN obj.d["_text"] ELSE NoneV])
      [] OTHER -> Raise("AttributeError")

(***************************************************************************)
(* The objects handed to the serializer.                                   *)
(***************************************************************************)
SerKeys == {"a", "b", "z"}
SerNames == {"", "root"}
SerLeaves == {IntV(1), BoolV(TRUE), StrV(<<"1">>)}

SeqsUpTo(S, n) == UNION {[1..m -> S] : m \in 0..n}

SerLists == {ListV(l) : l \in SeqsUpTo({IntV(1), IntV(2)}, MaxSeqLen)}

SerValues ==
    SerLeaves \cup SerLists
        \cup {DictV(("a" :> IntV(1))), ListV(<<ListV(<<IntV(1)>>)>>)}

FnsOnSubsets(K, V) == UNION {[S -> V] : S \in SUBSET K}

SerDicts == {DictV(d) : d \in FnsOnSubsets(SerKeys, SerValues)}

\* Generic objects: fields, and an ordering descriptor or none.
SerFieldValues == {IntV(1), ListV(<<>>), ListV(<<IntV(1), IntV(2)>>)}
SerOrderings ==
    {EmptyFn} \cup
    {("_childOrder" :> ListV([i \in 1..Len(o) |-> NameStr(o[i])])) :
        o \in SeqsUpTo(SerKeys, MaxOrderLen)}

SerNodes ==
    {[k |-> "node", cls |-> "BaseNode", name |-> "x", attrs |-> EmptyFn,
      d |-> ("_text" :> StrV(<<>>)) @@ o @@ f] :
        o \in SerOrderings, f \in FnsOnSubsets(SerKeys, SerFieldValues)}

SerObjects == SerValues \cup SerDicts \cup SerNodes

IterOrders(S) == {p \in [1..Cardinality(S) -> S] : Range(p) = S}

\* No document written yet.
NoDoc == [st |-> "none", toks |-> <<>>]

InitSer ==
    /\ serObj = NoneV
    /\ serName = ""
    /\ serIter = <<>>
    /\ serOut = Pending
    /\ doc = NoDoc

InitSerializer ==
    /\ typeDict = EmptyFn
    /\ InitParse
    /\ InitProbe
    /\ serObj \in SerObjects
    /\ serName \in SerNames
    /\ serIter = <<>>
    /\ serOut = Pending
    /\ doc = NoDoc

\* self._to_etree_r(obj, suggestedName) as called by toXml and _toXml
ToEtreeCall(ord) ==
    /\ serOut = Pending
    /\ serIter' = ord
    /\ serOut' = DataBinder_to_etree_r(serObj, serName, ord)
    /\ UNCHANGED <<serObj, serName, doc>>
    /\ UNCHANGED <<parseVars, textVars>>

NextSer == \E ord \in IterOrders(SerKeys) : ToEtreeCall(ord)

SpecSer == InitSerializer /\ [][NextSer]_vars

(***************************************************************************)
(* The round trip parseString(toXml(obj, suggestedName)).  The document    *)
(* toXml writes is a sequence of markup tokens: start tags, character data *)
(* and end tags, with the line breaks and indentation of pretty_print; the *)
(* tokenizer turns each token into the callback of its kind.               *)
(***************************************************************************)
StartTag(name, attrs) == [t |-> "start", name |-> name, attrs |-> attrs]
CharData(s) == [t |-> "chars", s |-> s]
EndTag(name) == [t |-> "end", name |-> name]

\* pretty_print: a line break and two spaces per level of nesting
Indent(depth) == <<"\n">> \o [i \in 1..(2 * depth) |-> " "]

\* etree.tostring(tree, pretty_print = True, ...) of one element
RECURSIVE Markup(_, _)
Markup(e, depth) ==
    LET hasText == e.text # NoneV /\ e.text.s # <<>>
        kids == e.children
        inner ==
            IF hasText
            THEN <<CharData(e.text.s)>>
                     \o ConcatAll([i \in 1..Len(kids) |-> Markup(kids[i], depth + 1)])
            ELSE IF kids = <<>> THEN <<>>
            ELSE ConcatAll([i \in 1..Len(kids) |->
                               <<CharData(Indent(depth + 1))>> \o Markup(kids[i], depth + 1)])
                     \o <<CharData(Indent(depth))>>
    IN <<StartTag(e.tag, e.attrib)>> \o inner \o <<EndTag(e.tag)>>

\* DataBinder.toXml: etree.tostring takes one element, a list is a TypeError
DataBinder_toXml(obj, suggestedName, ord) ==
    LET tree == DataBinder_to_etree_r(obj, suggestedName, ord) IN
    IF tree.err # "none" THEN tree
    ELSE IF tree.v.k # "elem" THEN Raise("TypeError")
    ELSE Return(Markup(tree.v, 0))

\* parser.parse over a well-formed document given whole: one callback per
\* token, up to the first callback that raises
RECURSIVE FeedTokens(_, _, _)
FeedTokens(h, td, toks) ==
    IF toks = <<>> THEN [h |-> h, err |-> "none"]
    ELSE LET t == Head(toks)
             r == CASE t.t = "start" -> BindingHandler_startElement(h, td, t.name, t.attrs)
                    [] t.t = "chars" -> BindingHandler_characters(h, t.s)
                    [] t.t = "end" -> BindingHandler_endElement(h, t.name)
         IN IF r.err # "none" THEN [h |-> r.h, err |-> r.err]
            ELSE FeedTokens(r.h, td, Tail(toks))

\* DataBinder.parseString on a well-formed document given whole
DataBinder_parseString(h, td, document) ==
    LET r == FeedTokens(Handler(h.stack, NoneV), td, document) IN
    IF r.err # "none" THEN [h |-> r.h, out |-> Raised(r.err)]
    ELSE [h |-> Handler(r.h.stack, NoneV), out |-> Returned(r.h.rootNode)]

\* Object graphs of scalars, sequences and mappings.
RoundTripObjects == SerValues \cup SerDicts

InitRoundTrip ==
    /\ typeDict = EmptyFn
    /\ InitParse
    /\ InitProbe
    /\ serObj \in RoundTripObjects
    /\ serName = "root"
    /\ serIter = <<>>
    /\ serOut = Pending
    /\ doc = NoDoc

RoundTripUnchanged ==
    /\ UNCHANGED <<par, typeDict, regs, classChildOrder, startDepth, pc, open, phase,
                   events, fresh, freshOut, elems>>
    /\ UNCHANGED textVars

\* binder.toXml(obj, 'root'): the argument of parseString; if it raises,
\* parseString is never entered
RoundTripToXml(ord) ==
    /\ serOut = Pending
    /\ serIter' = ord
    /\ serOut' = DataBinder_to_etree_r(serObj, serName, ord)
    /\ LET x == DataBinder_toXml(serObj, serName, ord) IN
       IF x.err # "none"
       THEN /\ doc' = [st |-> "done", toks |-> <<>>]
            /\ outcome' = Raised(x.err)
       ELSE /\ doc' = [st |-> "written", toks |-> x.v]
            /\ UNCHANGED outcome
    /\ UNCHANGED <<serObj, serName, stack, rootNode>>
    /\ RoundTripUnchanged

\* DataBinder.parseString up to parser.parse
RoundTripParseBegin ==
    /\ doc.st = "written"
    /\ doc' = [doc EXCEPT !.st = "parsing"]
    /\ rootNode' = NoneV
    /\ UNCHANGED <<serObj, serName, serIter, serOut, stack, outcome>>
    /\ RoundTripUnchanged

\* parser.parse over a well-formed document: one callback per token, up to
\* the first callback that raises
RoundTripFeed ==
    /\ doc.st = "parsing"
    /\ doc.toks # <<>>
    /\ LET t == Head(doc.toks)
           h == Handler(stack, rootNode)
           r == CASE t.t = "start" -> BindingHandler_startElement(h, typeDict, t.name, t.attrs)
                  [] t.t = "chars" -> BindingHandler_characters(h, t.s)
                  [] t.t = "end" -> BindingHandler_endElement(h, t.name)
       IN /\ stack' = r.h.stack
          /\ rootNode' = r.h.rootNode
          /\ IF r.err # "none"
             THEN /\ doc' = [st |-> "done", toks |-> <<>>]
                  /\ outcome' = Raised(r.err)
             ELSE /\ doc' = [doc EXCEPT !.toks = Tail(doc.toks)]
                  /\ UNCHANGED outcome
    /\ UNCHANGED <<serObj, serName, serIter, serOut>>
    /\ RoundTripUnchanged

\* DataBinder.parseString after parser.parse
RoundTripParseReturn ==
    /\ doc.st = "parsing"
    /\ doc.toks = <<>>
    /\ doc' = [doc EXCEPT !.st = "done"]
    /\ outcome' = Returned(rootNode)
    /\ rootNode' = NoneV
    /\ UNCHANGED <<serObj, serName, serIter, serOut, stack>>
    /\ RoundTripUnchanged

NextRoundTrip ==
    \/ \E ord \in IterOrders(SerKeys) : RoundTripToXml(ord)
    \/ RoundTripParseBegin
    \/ RoundTripFeed
    \/ RoundTripParseReturn

SpecRoundTrip == InitRoundTrip /\ [][NextRoundTrip]_vars

Init ==
    /\ typeDict \in InitTypeDicts
    /\ InitParse
    /\ InitProbe
    /\ InitSer

Next ==
    \/ ParseBegin
    \/ \E sc \in StartChoices : TokStartElement(sc[1], sc[2])
    \/ \E ch \in Chunks : TokCharacters(ch)
    \/ TokEndElement
    \/ TokError
    \/ ParseReturn

Spec == Init /\ [][Next]_vars

\* The same documents under the two registries of the DataBinder docstring:
\* none, and ComplexType with a typed child.
DocTypeDicts == {EmptyFn, ("x" :> "ComplexType") @@ ("foo" :> "IntegerNode")}

InitDoc ==
    /\ typeDict \in DocTypeDicts
    /\ InitParse
    /\ InitProbe
    /\ InitSer

SpecDoc == InitDoc /\ [][Next]_vars

InitText ==
    /\ typeDict = EmptyFn
    /\ InitParse
    /\ InitProbe
    /\ InitSer

NextText == \E c \in ProbeChars : ProbeCharacters(c)

SpecText == InitText /\ [][NextText]_vars

(***************************************************************************)
(* Documents with character data between the children of an element, with *)
(* an XML attribute named _singleChildren and with a child tag named       *)
(* _text.                                                                  *)
(***************************************************************************)
CharsStartChoices ==
    {<<"x", EmptyFn>>,
     <<"x", ("_singleChildren" :> NameStr("_text"))>>,
     <<"_text", EmptyFn>>}
CharsChunks == {<<"1">>, <<"2">>}
CharsTypeDicts == {EmptyFn, ("_text" :> "StringNode")}

InitChars ==
    /\ typeDict \in CharsTypeDicts
    /\ InitParse
    /\ InitProbe
    /\ InitSer

NextChars ==
    \/ ParseBegin
    \/ \E sc \in CharsStartChoices : TokStartElement(sc[1], sc[2])
    \/ \E ch \in CharsChunks : TokCharacters(ch)
    \/ TokEndElement
    \/ TokError
    \/ ParseReturn

SpecChars == InitChars /\ [][NextChars]_vars

(***************************************************************************)
(* Registrations between parses: a binder constructed without a typeDict,  *)
(* registerType calls, and documents whose elements are opened under the   *)
(* registry of the moment.                                                 *)
(***************************************************************************)
RegKeys == {"x", "foo"}
RegTypes == {"IntegerNode", "DictNode"}
RegStartChoices == {<<"x", EmptyFn>>, <<"foo", ("id" :> StrV(<<"1">>))>>, <<"a", EmptyFn>>}

InitReg ==
    /\ typeDict = EmptyFn
    /\ InitParse
    /\ InitProbe
    /\ InitSer

NextReg ==
    \/ \E key \in RegKeys, val \in RegTypes : RegisterType(key, val)
    \/ ParseBegin
    \/ \E sc \in RegStartChoices : TokStartElement(sc[1], sc[2])
    \/ TokEndElement
    \/ TokError
    \/ ParseReturn

SpecReg == InitReg /\ [][NextReg]_vars

(***************************************************************************)
(* Documents parsed under a registry that binds x to a class declaring an  *)
(* ordering descriptor.                                                    *)
(***************************************************************************)
OrderStartChoices == {<<"x", EmptyFn>>, <<"foo", EmptyFn>>}
OrderTypeDicts == {("x" :> "OrderedType")}

InitOrder ==
    /\ typeDict \in OrderTypeDicts
    /\ InitParse
    /\ InitProbe
    /\ InitSer

NextOrder ==
    \/ ParseBegin
    \/ \E sc \in OrderStartChoices : TokStartElement(sc[1], sc[2])
    \/ \E ch \in Chunks : TokCharacters(ch)
    \/ TokEndElement
    \/ TokError
    \/ ParseReturn

SpecOrder == InitOrder /\ [][NextOrder]_vars

(***************************************************************************)
(* Two binders constructed with the same typeDict: each has the            *)
(* BindingHandler of its own __init__, both handlers hold the one          *)
(* dictionary.  Their parseString calls run at the same time, the          *)
(* callbacks of the two documents arriving in any interleaving.            *)
(***************************************************************************)
Binders == {1, 2}
ParStartChoices == {<<"x", EmptyFn>>, <<"foo", EmptyFn>>}
ParTypeDicts == {("x" :> "ComplexType") @@ ("foo" :> "IntegerNode")}

\* The handler binder b parses with: self.contentHandler
ContentHandler_Shared(b) == 1
ContentHandler(b) == b

\* The other binder is inside a document.
OtherInDocument(b) == \E c \in Binders \ {b} : par.runs[c].st = "parsing" /\ par.runs[c].open # <<>>

ParUnchanged ==
    /\ UNCHANGED <<typeDict, binderVars>>
    /\ UNCHANGED <<textVars, serVars>>

\* parseString of binder b up to the call of parser.parse
ParBegin(b) ==
    /\ par.runs[b].st = "idle"
    /\ par' = [par EXCEPT !.runs[b].st = "parsing",
                          !.handlers[ContentHandler(b)].rootNode = NoneV]
    /\ UNCHANGED classChildOrder
    /\ ParUnchanged

\* One callback of binder b's document: the handler after it, and the end
\* of the call if it raised.
ParDeliver(b, tok, r, opn, ph) ==
    /\ par' = [par EXCEPT !.handlers[ContentHandler(b)] = r.h,
                          !.runs[b] = [st |-> IF r.err # "none" THEN "done" ELSE "parsing",
                                       toks |-> Append(@.toks, tok),
                                       open |-> opn,
                                       phase |-> ph,
                                       out |-> IF r.err # "none" THEN Raised(r.err) ELSE Pending],
                          !.mixed = @ \/ OtherInDocument(b)]
    /\ classChildOrder' = ListV(classChildOrder.l \o r.shared)
    /\ ParUnchanged

ParStartElement(b, name, attrs) ==
    LET run == par.runs[b] IN
    /\ run.st = "parsing"
    /\ Len(run.toks) < MaxParEvents
    /\ run.phase = "prolog" \/ run.phase = "content"
    /\ ParDeliver(b, StartTag(name, attrs),
                  BindingHandler_startElement(par.handlers[ContentHandler(b)], typeDict, name, attrs),
                  Append(run.open, name), "content")

ParCharacters(b, ch) ==
    LET run == par.runs[b] IN
    /\ run.st = "parsing"
    /\ Len(run.toks) < MaxParEvents
    /\ run.phase = "content"
    /\ ParDeliver(b, CharData(ch),
                  BindingHandler_characters(par.handlers[ContentHandler(b)], ch),
                  run.open, "content")

ParEndElement(b) ==
    LET run == par.runs[b] IN
    /\ run.st = "parsing"
    /\ Len(run.toks) < MaxParEvents
    /\ run.phase = "content"
    /\ ParDeliver(b, EndTag(Last(run.open)),
                  BindingHandler_endElement(par.handlers[ContentHandler(b)], Last(run.open)),
                  Front(run.open),
                  IF Len(run.open) = 1 THEN "epilog" ELSE "content")

\* The document of binder b ends: its parseString hands out rootNode.
ParReturn(b) ==
    /\ par.runs[b].st = "parsing"
    /\ par.runs[b].phase = "epilog"
    /\ par' = [par EXCEPT !.runs[b].st = "done",
                          !.runs[b].out = Returned(par.handlers[ContentHandler(b)].rootNode),
                          !.handlers[ContentHandler(b)].rootNode = NoneV]
    /\ UNCHANGED classChildOrder
    /\ ParUnchanged

InitTwo ==
    /\ typeDict \in ParTypeDicts
    /\ InitParse
    /\ InitProbe
    /\ InitSer

NextTwo ==
    \E b \in Binders :
        \/ ParBegin(b)
        \/ \E sc \in ParStartChoices : ParStartElement(b, sc[1], sc[2])
        \/ \E ch \in Chunks : ParCharacters(b, ch)
        \/ ParEndElement(b)
        \/ ParReturn(b)

SpecTwo == InitTwo /\ [][NextTwo]_vars

(***************************************************************************)
(* Reading the state.                                                      *)
(***************************************************************************)
Tags == {sc[1] : sc \in StartChoices}

\* The handler's node of the i-th open element of the current document.
OpenNode(i) == stack[Len(stack) - Len(open) + i]

\* The closed children named t of element p, and the last of them to close.
ClosedKids(p, t) ==
    {j \in 1..Len(elems) : elems[j].parent = p /\ elems[j].name = t /\ elems[j].closedAt # 0}
LastClosed(kids) == CHOOSE j \in kids : \A m \in kids : elems[m].closedAt <= elems[j].closedAt

RECURSIVE KidValues(_)
KidValues(kids) ==
    IF kids = {} THEN <<>>
    ELSE LET j == LastClosed(kids) IN Append(KidValues(kids \ {j}), elems[j].val)

\* t is declared in the _singleChildren of the class
DeclaredSingle(cls, t) == NameIn(t, ClassSingleChildren(cls)).v.b

CallReturned == pc = "idle" /\ outcome.kind = "returned"
StreamEnded == pc = "idle" /\ (outcome.kind = "returned" \/ outcome = Raised("SAXParseException"))

(***************************************************************************)
(* C1: the handler's stack and last result are reset before each parse:    *)
(* every parseString call starts with an empty stack and no stored result, *)
(* and so returns what a fresh binder with the same registry returns for   *)
(* the document.                                                           *)
(***************************************************************************)
C1_ResetBeforeEachParse ==
    /\ (pc = "parsing" /\ phase = "prolog") => (stack = <<>> /\ rootNode = NoneV)
    /\ CallReturned => outcome = freshOut

(***************************************************************************)
(* C2: the value a parse returns is the finalized value of the root        *)
(* element's node (0 for an empty integer root, false for boolean, None    *)
(* for null, '' for string).                                               *)
(***************************************************************************)
C2_ResultIsFinalizedRoot ==
    (CallReturned /\ freshOut.kind = "returned") =>
        /\ Finalize(freshOut.v).err = "none"
        /\ outcome.v = Finalize(freshOut.v).v

(***************************************************************************)
(* C3: for every element of a well-formed stream, root included, _finalize *)
(* is called exactly once, at the element's close, and not before the      *)
(* _finalize of each of its children.                                      *)
(***************************************************************************)
C3_FinalizeOnceAtClose ==
    CallReturned =>
        \A i \in 1..Len(elems) :
            /\ elems[i].finAt = <<elems[i].closedAt>>
            /\ \A j \in 1..Len(elems) :
                  elems[j].parent = i =>
                      /\ elems[j].finAt # <<>>
                      /\ elems[j].finAt[1] < elems[i].finAt[1]

(***************************************************************************)
(* C4: single-child overwrite: a parent whose class declares t in          *)
(* _singleChildren holds, after one or more closed children named t, the   *)
(* finalized value of the last of them under t, never a list.              *)
(***************************************************************************)
C4_SingleChildOverwrite ==
    pc = "parsing" =>
        \A i \in 1..Len(open) : \A t \in Tags :
            LET kids == ClosedKids(open[i], t) IN
            (DeclaredSingle(OpenNode(i).cls, t) /\ kids # {}) =>
                /\ t \in DOMAIN OpenNode(i).d
                /\ OpenNode(i).d[t] = elems[LastClosed(kids)].val

(***************************************************************************)
(* C5: repeatable children: for every tag t not declared single-child on   *)
(* the parent's class, the parent's field t is the list of the finalized   *)
(* values of all its closed t children, in close order.                    *)
(***************************************************************************)
C5_RepeatableChildren ==
    pc = "parsing" =>
        \A i \in 1..Len(open) : \A t \in Tags :
            LET kids == ClosedKids(open[i], t) IN
            (~DeclaredSingle(OpenNode(i).cls, t) /\ kids # {}) =>
                /\ t \in DOMAIN OpenNode(i).d
                /\ OpenNode(i).d[t] = ListV(KidValues(kids))

(***************************************************************************)
(* C6: malformed streams are rejected: a stream that ends while the        *)
(* handler's stack is not empty fails with the malformed-document error    *)
(* (SAXParseException) and yields no root value.                           *)
(***************************************************************************)
C6_MalformedRejected ==
    (StreamEnded /\ stack # <<>>) => outcome = Raised("SAXParseException")

(***************************************************************************)
(* C7: integer finalization returns 0 for empty or all-whitespace text,    *)
(* the integer the text denotes otherwise, and fails only for text that is *)
(* non-empty after stripping and is no integer literal.                    *)
(***************************************************************************)
IsIntLiteral(s) ==
    \/ AllDigits(s)
    \/ Len(s) > 1 /\ s[1] \in {"-", "+"} /\ AllDigits(Tail(s))

LiteralValue(s) ==
    IF s[1] = "-" THEN 0 - DigitsVal(Tail(s))
    ELSE IF s[1] = "+" THEN DigitsVal(Tail(s))
    ELSE DigitsVal(s)

C7_IntegerFinalize ==
    LET s == Strip(text) IN
    /\ s = <<>> => intRes = Return(IntV(0))
    /\ (s # <<>> /\ IsIntLiteral(s)) => intRes = Return(IntV(LiteralValue(s)))
    /\ intRes.err # "none" => (s # <<>> /\ ~IsIntLiteral(s))

(***************************************************************************)
(* C8: boolean finalization never fails and yields true exactly when the   *)
(* text, stripped of surrounding whitespace and lower-cased, is "true" or  *)
(* "1".                                                                    *)
(***************************************************************************)
LowerChar(c) ==
    CASE c = "T" -> "t"
      [] c = "R" -> "r"
      [] c = "U" -> "u"
      [] c = "E" -> "e"
      [] OTHER -> c

Lower(s) == [i \in 1..Len(s) |-> LowerChar(s[i])]

C8_BooleanFinalize ==
    boolRes = Return(BoolV(Lower(Strip(text)) \in {<<"t", "r", "u", "e">>, <<"1">>}))

C8_Witness ==
    /\ text = <<" ", "T", "r", "u", "e">>
    /\ boolRes = Return(BoolV(TRUE))

(***************************************************************************)
(* Reading the serializer's result.                                        *)
(***************************************************************************)
SerDone == serOut # Pending /\ serOut.err = "none"

ChildTags(e) == [i \in 1..Len(e.children) |-> e.children[i].tag]
Count(tags, n) == Cardinality({i \in 1..Len(tags) : tags[i] = n})

\* The number of elements a value serializes to under a tag.
Emitted(v) == IF v.k = "list" THEN Len(v.l) ELSE 1

NameLess(x, y) == SeqLess(NameCodes(x), NameCodes(y))

\* The ordering descriptor an object carries, as a sequence of names.
DescriptorOf(obj) == IF "_childOrder" \in DOMAIN obj.d THEN obj.d["_childOrder"].l ELSE <<>>
Listed(x, o) == \E i \in 1..Len(o) : o[i] = NameStr(x)
FirstPos(x, o) == CHOOSE i \in 1..Len(o) : o[i] = NameStr(x) /\ \A j \in 1..(i - 1) : o[j] # NameStr(x)

ThreeKeyBefore(x, y, o) ==
    \/ Listed(x, o) /\ ~Listed(y, o)
    \/ Listed(x, o) /\ Listed(y, o) /\ FirstPos(x, o) < FirstPos(y, o)
    \/ ~Listed(x, o) /\ ~Listed(y, o) /\ NameLess(x, y)

Fields(obj) == {m \in DOMAIN obj.d : ~StartsWithUnderscore(m)}

RECURSIVE FlatLeaves(_)
FlatLeaves(v) ==
    IF v.k = "list"
    THEN ConcatAll([i \in 1..Len(v.l) |-> FlatLeaves(v.l[i])])
    ELSE <<v>>

\* One element named n per element of the sequence v.
FanOut(v, n) ==
    LET leaves == FlatLeaves(v) IN
    [i \in 1..Len(leaves) |-> DataBinder_to_etree_r(leaves[i], n, serIter).v]

ChildrenNamed(e, n) == SelectSeq(e.children, LAMBDA c : c.tag = n)

SequenceFields(obj) == {n \in Fields(obj) : obj.d[n].k = "list"}

C11_SequenceFanOut ==
    (serOut # Pending /\ serName # "") =>
        /\ serObj.k = "list" => serOut = Return(ListV(FanOut(serObj, serName)))
        /\ (serObj.k \in {"dict", "node"} /\ SequenceFields(serObj) # {}) =>
              /\ serOut.err = "none"
              /\ \A n \in SequenceFields(serObj) :
                    ChildrenNamed(serOut.v, n) = FanOut(serObj.d[n], n)

(***************************************************************************)
(* C12: round trip: for an object graph x of scalars, sequences and        *)
(* mappings, parseString(toXml(x, "root")) with no registered types        *)
(* returns a node structurally equivalent to x: the same child tags, the   *)
(* same number and order of values under each tag, the same leaf texts.    *)
(***************************************************************************)
\* The text a scalar is written as.
LeafText(x) ==
    CASE x.k = "bool" -> IF x.b THEN <<"t", "r", "u", "e">> ELSE <<"f", "a", "l", "s", "e">>
      [] x.k = "int" -> IntChars(x.i)
      [] x.k = "str" -> x.s

\* The values a mapping holds under a key: the elements of a sequence, or
\* the one value that is no sequence.
ValuesUnder(v) == IF v.k = "list" THEN v.l ELSE <<v>>

RECURSIVE Equivalent(_, _)
Equivalent(x, node) ==
    /\ node.k = "node"
    /\ CASE x.k \in {"bool", "int", "str"} ->
                /\ Fields(node) = {}
                /\ node.d["_text"] = StrV(LeafText(x))
         [] x.k = "dict" ->
                /\ Fields(node) \subseteq DOMAIN x.d
                /\ \A n \in DOMAIN x.d :
                      LET vs == ValuesUnder(x.d[n]) IN
                      IF vs = <<>> THEN n \notin Fields(node)
                      ELSE /\ n \in Fields(node)
                           /\ node.d[n].k = "list"
                           /\ Len(node.d[n].l) = Len(vs)
                           /\ \A i \in 1..Len(vs) : Equivalent(vs[i], node.d[n].l[i])
         [] OTHER -> FALSE

C12_RoundTrip ==
    (doc.st = "done" /\ serName = "root" /\ serObj \in RoundTripObjects) =>
        /\ outcome.kind = "returned"
        /\ Equivalent(serObj, outcome.v)

(***************************************************************************)
(* C13: text accumulation: the accumulated text of every element is the    *)
(* concatenation, in arrival order, of the character data delivered while  *)
(* it was top of the stack, while it is open and at its close.             *)
(***************************************************************************)
C13_TextAccumulation ==
    /\ pc = "parsing" =>
          \A i \in 1..Len(open) : OpenNode(i).d["_text"] = StrV(elems[open[i]].chars)
    /\ \A j \in 1..Len(elems) :
          elems[j].closedAt # 0 => elems[j].textAtClose = StrV(elems[j].chars)

(***************************************************************************)
(* C14: dict finalization: the mapping DictNode._finalize returns has one  *)
(* key for every child tag attached to the node, mapped to what the node   *)
(* stores under that tag, and no key for an XML attribute of the element   *)
(* or for its text.                                                        *)
(***************************************************************************)
AttachedTags(p) == {t \in Tags : ClosedKids(p, t) # {}}

C14_DictFinalize ==
    pc = "parsing" =>
        \A i \in 1..Len(open) :
            OpenNode(i).cls = "DictNode" =>
                LET f == DictNode_finalize(OpenNode(i)) IN
                /\ f.err = "none"
                /\ f.v.k = "dict"
                /\ DOMAIN f.v.d = AttachedTags(open[i])
                /\ \A t \in DOMAIN f.v.d : f.v.d[t] = OpenNode(i).d[t]
                /\ \A n \in DOMAIN OpenNode(i).attrs :
                      n \notin AttachedTags(open[i]) => n \notin DOMAIN f.v.d
                /\ "_text" \notin DOMAIN f.v.d

(***************************************************************************)
(* C15: type registration is last-wins per tag: every element-open for a   *)
(* tag t pushes a new, empty node of the class of the most recent          *)
(* registerType call for t, of BaseNode if there was none, seeded with the *)
(* attributes; and a registerType call for t leaves the class used for     *)
(* every other tag as it was.                                              *)
(***************************************************************************)
\* The class of the last call for tag t in a log of registerType calls.
LatestClass(log, t) ==
    LET calls == {i \in 1..Len(log) : log[i][1] = t} IN
    IF calls = {} THEN "BaseNode"
    ELSE log[CHOOSE i \in calls : \A j \in calls : j <= i][2]

RegTags == {sc[1] : sc \in RegStartChoices}

C15_LastRegistrationWins ==
    [][/\ Len(elems') = Len(elems) + 1 =>
              LET name == Last(elems').name IN
              stack' = Append(stack, NewNode(LatestClass(regs, name), name, Last(stack').attrs))
       /\ regs' # regs =>
              \A t \in RegTags \ {Last(regs')[1]} :
                  ClassType(typeDict', t) = ClassType(typeDict, t)]_vars

\* x registered twice, a never: a is opened as a BaseNode, x as a DictNode
C15_Witness ==
    /\ regs = <<<<"x", "IntegerNode">>, <<"x", "DictNode">>>>
    /\ pc = "parsing"
    /\ stack = <<NewNode("BaseNode", "a", EmptyFn), NewNode("DictNode", "x", EmptyFn),
                 NewNode("BaseNode", "foo", ("id" :> StrV(<<"1">>)))>>

(***************************************************************************)
(* C16: the parser neither reads nor replaces the ordering descriptor: a   *)
(* node whose registered class declares one still carries the declared     *)
(* order, and is serialized in it, after children were attached to it in   *)
(* any arrival order.                                                      *)
(***************************************************************************)
\* childOrder as line 267 computes it for a node, its fields iterated in
\* the order of OrderIter
OrderIter == <<"x", "foo", "_childOrder", "_singleChildren", "_text">>
ChildOrderUsed(node, ordering) ==
    DataBinder_getChildOrder(IterKeys(Fields(node), OrderIter), ordering)

C16_DescriptorUntouched ==
    pc = "parsing" =>
        \A i \in 1..Len(open) :
            LET declared == ClassChildOrder(OpenNode(i).cls) IN
            declared # ListV(<<>>) =>
                /\ OrderingOf(OpenNode(i)) = declared
                /\ ChildOrderUsed(OpenNode(i), OrderingOf(OpenNode(i)))
                       = ChildOrderUsed(OpenNode(i), declared)

(***************************************************************************)
(* C17: the child order a node records lists its attached child tags in    *)
(* first-seen order, each distinct tag once: a repeated or interleaved     *)
(* occurrence of a tag adds no entry.                                      *)
(***************************************************************************)
\* The tags of the closed children of element p, in the order they closed.
RECURSIVE AttachedNames(_)
AttachedNames(kids) ==
    IF kids = {} THEN <<>>
    ELSE LET j == LastClosed(kids) IN Append(AttachedNames(kids \ {j}), elems[j].name)

ClosedChildren(p) == {j \in 1..Len(elems) : elems[j].parent = p /\ elems[j].closedAt # 0}

\* A sequence without the later occurrences of its members.
RECURSIVE FirstSeen(_)
FirstSeen(sq) ==
    IF sq = <<>> THEN <<>>
    ELSE LET f == FirstSeen(Front(sq)) IN
         IF Last(sq) \in Range(f) THEN f ELSE Append(f, Last(sq))

NamesAsStr(sq) == ListV([i \in 1..Len(sq) |-> NameStr(sq[i])])

C17_FirstSeenChildOrder ==
    pc = "parsing" =>
        \A i \in 1..Len(open) :
            ClosedChildren(open[i]) # {} =>
                /\ HasInstanceAttr(OpenNode(i), "_childOrder")
                /\ OpenNode(i).d["_childOrder"]
                       = NamesAsStr(FirstSeen(AttachedNames(ClosedChildren(open[i]))))

(***************************************************************************)
(* C18: attaching children never mutates the class-level default           *)
(* _childOrder: the default stays empty, a node that has recorded a child  *)
(* order holds it in a list of its own, and an attachment to one node      *)
(* leaves the child order recorded on every other node as it was.          *)
(***************************************************************************)
\* self._childOrder of a node, given the class-level default list
RecordedOrderIn(node, default) ==
    IF HasInstanceAttr(node, "_childOrder") THEN node.d["_childOrder"]
    ELSE IF "_childOrder" \in DOMAIN node.attrs THEN node.attrs["_childOrder"]
    ELSE IF ClassChildOrder(node.cls) # ListV(<<>>) THEN ClassChildOrder(node.cls)
    ELSE default

\* The stack position a step attaches a child to, 0 if it attaches none.
AttachTarget == IF Len(stack') = Len(stack) - 1 THEN Len(stack') ELSE 0

C18_NoSharedChildOrder ==
    /\ [](/\ classChildOrder = ListV(<<>>)
          /\ \A j \in 1..Len(stack) :
                (Fields(stack[j]) # {} /\ ClassChildOrder(stack[j].cls) = ListV(<<>>)) =>
                    HasInstanceAttr(stack[j], "_childOrder"))
    /\ [][\A j \in 1..Len(stack') :
              (j <= Len(stack) /\ j # AttachTarget) =>
                  RecordedOrderIn(stack'[j], classChildOrder')
                      = RecordedOrderIn(stack[j], classChildOrder)]_vars

\* foo was attached to the inner x while the outer x, with no list of its
\* own, was on the stack
C18_Witness ==
    /\ pc = "parsing"
    /\ Len(stack) = 2
    /\ ~HasInstanceAttr(stack[1], "_childOrder")
    /\ HasInstanceAttr(stack[2], "_childOrder")
    /\ stack[2].d["_childOrder"] = ListV(<<NameStr("foo")>>)
    /\ classChildOrder = ListV(<<>>)

(***************************************************************************)
(* C20: stack discipline: in a parse that starts from an empty stack the   *)
(* depth of the stack is the number of element-open events minus the       *)
(* number of element-close events so far; a result is stored only by the   *)
(* close event that empties the stack; and a call that returns leaves the  *)
(* stack empty and returns the node the first element-open event created.  *)
(***************************************************************************)
Opens == Len(elems)
Closes == Cardinality({j \in 1..Len(elems) : elems[j].closedAt # 0})

C20_StackDiscipline ==
    /\ [](startDepth = 0 =>
            /\ pc = "parsing" =>
                  /\ Len(stack) = Opens - Closes
                  /\ stack # <<>> => stack[1].name = elems[1].name
                  /\ rootNode # NoneV => (stack = <<>> /\ Opens > 0)
            /\ CallReturned =>
                  /\ stack = <<>>
                  /\ outcome.v.k = "node"
                  /\ outcome.v.name = elems[1].name
                  /\ outcome.v.cls = ClassType(typeDict, elems[1].name))
    /\ [][(startDepth = 0 /\ pc = "parsing" /\ rootNode' # rootNode /\ rootNode' # NoneV) =>
              /\ Len(stack) = 1
              /\ stack' = <<>>
              /\ rootNode' = stack[1]]_vars

\* '<x><foo/></x>' parsed by a binder whose stack was empty
C20_Witness ==
    /\ CallReturned
    /\ startDepth = 0
    /\ stack = <<>>
    /\ Opens = 2
    /\ Closes = 2
    /\ outcome.v.k = "node"
    /\ outcome.v.name = "x"
    /\ "foo" \in DOMAIN outcome.v.d

(***************************************************************************)
(* C19: two parses whose callbacks interleave, each on the handler of its  *)
(* own binder, the two sharing one typeDict that no one modifies, do not   *)
(* interfere: each handler is at every moment as the callbacks of its own  *)
(* document alone leave a new handler, and each call returns what it       *)
(* returns when run alone.                                                 *)
(***************************************************************************)
C19_InterleavedParses ==
    \A b \in Binders :
        LET run == par.runs[b]
            alone == DataBinder_parseString(BindingHandler_init, typeDict, run.toks)
        IN /\ run.st = "parsing" =>
                 par.handlers[b] = FeedTokens(BindingHandler_init, typeDict, run.toks).h
           /\ run.st = "done" => run.out = alone.out

\* '<x><foo>1</foo></x>' and '<foo>1</foo>', delivered interleaved
C19_Witness ==
    /\ par.mixed
    /\ par.runs[1].out.kind = "returned"
    /\ par.runs[2].out.kind = "returned"
    /\ par.runs[1].toks = <<StartTag("x", EmptyFn), StartTag("foo", EmptyFn),
                            EndTag("foo"), EndTag("x")>>
    /\ par.runs[2].toks = <<StartTag("foo", EmptyFn), CharData(<<"1">>), EndTag("foo")>>

====
